---------------------------- MODULE Spec2Model ----------------------------
(***************************************************************************)
(* A model of netort/resource.py: the HTTP stream wrapper                  *)
(* (HttpStreamWrapper), the HTTP opener (HttpOpener) with its cache file   *)
(* and the retry decorator, FormatDetector, FileOpener.hash and            *)
(* ResourceManager.resource_string.                                        *)
(*                                                                         *)
(* The module holds several specifications over one set of variables:      *)
(*   SpecStream   one HttpStreamWrapper driven by one consumer;            *)
(*   SpecSeek     the same wrapper over bodies of many chunks;             *)
(*   SpecOpener   the construction of HttpOpener objects (the probe);      *)
(*   SpecOpen     a constructed HttpOpener being called (open, download,   *)
(*                get_filename);                                           *)
(*   SpecManager  ResourceManager.resource_string on an HTTP URL;          *)
(*   SpecRace     two processes in download_file for one cache file;       *)
(*   SpecRetry    the retry decorator around a fallible method;            *)
(*   SpecDetect   FormatDetector.detect_format on headers;                 *)
(*   SpecFile     FileOpener.hash on a local file whose metadata changes.  *)
(* Each specification leaves the variables of the other parts untouched.   *)
(***************************************************************************)
EXTENDS Integers, Sequences, FiniteSets, TLC

(***************************************************************************)
(* Bounds of the model.                                                    *)
(***************************************************************************)
\* longest body served to the stream wrapper
MaxLen == 3
\* largest chunk the transport hands over at once (chunk_size is 10**3 in
\* the program; the model scales it down)
MaxChunk == 2
\* number of GET requests one wrapper may issue (the first one included)
MaxRequests == 3
\* largest attempts argument given to an HttpOpener (the program's default is 42)
MaxAttempts == 2
\* largest attempt count given to the retry decorator on its own
MaxRetryAttempts == 3

NL == "\n"
Bytes == {"x", NL}

RECURSIVE SeqsUpTo(_)
SeqsUpTo(n) ==
    IF n = 0 THEN {<< >>}
    ELSE LET S == SeqsUpTo(n - 1)
         IN  S \cup {Append(s, b) : s \in {t \in S : Len(t) = n - 1}, b \in Bytes}

Contents == SeqsUpTo(MaxLen)

Min(a, b) == IF a < b THEN a ELSE b

\* python slice s[a:] (0-based a >= 0)
From(s, a) == SubSeq(s, a + 1, Len(s))
\* python slice s[:b] (b >= 0)
Upto(s, b) == SubSeq(s, 1, Min(b, Len(s)))

VARIABLES
    \* ---- HttpStreamWrapper ----
    content,      \* the body the server returns for the URL on every GET
    buffer,       \* self.buffer
    pointer,      \* self.pointer
    it_pos,       \* self.stream_iterator: bytes it has yielded on this connection
    consumed,     \* self._content_consumed
    requests,     \* GET requests issued by the wrapper so far
    last,         \* the last call of the consumer and what it returned
    out,          \* all bytes returned to the consumer so far, in order
    linesOnly     \* the consumer has called nothing but readline()/next()

VARIABLES
    \* ---- the server behind the URL, /tmp and the HttpOpener objects ----
    server,       \* what the server reports now: Last-Modified, Content-Length, format
    files,        \* /tmp: cache file path -> the body it holds, or NoFile
    attempts,     \* the attempts argument the openers are constructed with
    openers,      \* the HttpOpener objects: their fields
    olast         \* the last HttpOpener call: its requests and its outcome

VARIABLES
    \* ---- a method under the retry decorator ----
    r_attempts,   \* self.attempts
    r_calls,      \* the invocations of the wrapped method the last call made, counted
    r_result      \* what the last call gave its caller

VARIABLES
    \* ---- FormatDetector ----
    d_header,     \* the header handed to detect_format
    d_fmt         \* what detect_format returned for it

VARIABLES
    \* ---- a local file and its FileOpener ----
    f_path,       \* self.f_path
    f_stat,       \* the file's metadata now
    f_hashed      \* the last evaluation of FileOpener.hash: the metadata then and the key

VARIABLES
    \* ---- two processes in download_file for the same cache file ----
    cache,        \* the cache file on disk: NoFile or the bytes it holds
    procs         \* each process: where it is in download_file and what it holds

streamVars == <<content, buffer, pointer, it_pos, consumed, requests, last, out, linesOnly>>
openerVars == <<server, files, attempts, openers, olast>>
retryVars == <<r_attempts, r_calls, r_result>>
detectVars == <<d_header, d_fmt>>
fileVars == <<f_path, f_stat, f_hashed>>
raceVars == <<cache, procs>>

vars == <<streamVars, openerVars, retryVars, detectVars, fileVars, raceVars>>

(***************************************************************************)
(* HttpStreamWrapper                                                       *)
(*                                                                         *)
(* The server returns the same body on every GET and the transport         *)
(* delivers it: the iterator yields the body in non-empty chunks of at     *)
(* most chunk_size bytes, cut anywhere, and then raises StopIteration.     *)
(***************************************************************************)
chunk_size == MaxChunk

\* the bytes the connection has not handed over yet
Unpulled(pos) == From(content, pos)

\* what the consumer can still get without a new request
Avail == buffer \o Unpulled(it_pos)

\* the sizes stream_iterator.next() may yield at offset pos; none: StopIteration
ChunkSizes(pos) == 1 .. Min(chunk_size, Len(content) - pos)

\* _enhance_buffer: self.buffer += self.stream_iterator.next()
_enhance_buffer(buf, pos, k) == buf \o SubSeq(content, pos + 1, pos + k)

HasNL(buf) == \E i \in 1 .. Len(buf) : buf[i] = NL
\* buf.index('\n'), 1-based
IndexNL(buf) == CHOOSE i \in 1 .. Len(buf) : buf[i] = NL /\ \A j \in 1 .. (i - 1) : buf[j] # NL

\* read: the loop "while len(self.buffer) < chunk_size", StopIteration breaks it
RECURSIVE ReadLoop(_, _, _)
ReadLoop(buf, pos, n) ==
    IF Len(buf) < n
    THEN IF ChunkSizes(pos) = {}
         THEN {[buf |-> buf, pos |-> pos]}
         ELSE UNION {ReadLoop(_enhance_buffer(buf, pos, k), pos + k, n) : k \in ChunkSizes(pos)}
    ELSE {[buf |-> buf, pos |-> pos]}

ReadChunk_Whole(buf, n) == buf
\* read: the chunk cut from the buffer
ReadChunk(buf, n) == IF Len(buf) > n THEN Upto(buf, n) ELSE buf

\* next: the loop "while '\n' not in self.buffer", StopIteration ends the stream
RECURSIVE NextLoop(_, _, _)
NextLoop(buf, pos, cons) ==
    IF ~HasNL(buf)
    THEN IF ChunkSizes(pos) = {}
         THEN {[buf |-> buf, pos |-> pos, cons |-> TRUE]}
         ELSE UNION {NextLoop(_enhance_buffer(buf, pos, k), pos + k, cons) : k \in ChunkSizes(pos)}
    ELSE {[buf |-> buf, pos |-> pos, cons |-> cons]}

NextHasLine_Unconsumed(cons, buf) == ~cons
\* next: "if not self._content_consumed or self.buffer"
NextHasLine(cons, buf) == ~cons \/ buf # << >>

NextLine_Terminated(buf) == IF HasNL(buf) THEN Upto(buf, IndexNL(buf)) ELSE << >>
\* next: the line cut from the buffer (ValueError: no newline, the whole buffer)
NextLine(buf) == IF HasNL(buf) THEN Upto(buf, IndexNL(buf)) ELSE buf

\* seek: _enhance_buffer() once, then "while len(self.buffer) < position";
\* a StopIteration of the iterator leaves seek
RECURSIVE SeekWhile(_, _, _)
SeekWhile(buf, pos, position) ==
    IF Len(buf) < position
    THEN IF ChunkSizes(pos) = {}
         THEN {[buf |-> buf, pos |-> pos, raised |-> "StopIteration"]}
         ELSE UNION {SeekWhile(_enhance_buffer(buf, pos, k), pos + k, position) : k \in ChunkSizes(pos)}
    ELSE {[buf |-> buf, pos |-> pos, raised |-> "none"]}

SeekLoop(position) ==
    IF ChunkSizes(0) = {}
    THEN {[buf |-> << >>, pos |-> 0, raised |-> "StopIteration"]}
    ELSE UNION {SeekWhile(_enhance_buffer(<< >>, 0, k), k, position) : k \in ChunkSizes(0)}

SeekMoves_Position(position) == position # 0
\* seek: "if self.pointer"
SeekMoves(position) == pointer # 0

\* a call of the consumer: what it was given, what it got, the pointer and the
\* bytes still to come before it, and for seek the most bytes the buffer held
Call(op, arg, ret, raised) ==
    [op |-> op, arg |-> arg, ret |-> ret, raised |-> raised,
     prePointer |-> pointer, preAvail |-> Avail, peak |-> 0]

\* HttpStreamWrapper.__init__ on a URL whose body is one of Contents
InitStream ==
    /\ content \in Contents
    /\ buffer = << >>
    /\ pointer = 0
    /\ it_pos = 0
    /\ consumed = FALSE
    /\ requests = 1
    /\ last = [op |-> "init", arg |-> 0, ret |-> << >>, raised |-> "none",
               prePointer |-> 0, preAvail |-> content, peak |-> 0]
    /\ out = << >>
    /\ linesOnly = TRUE

\* tell()
tell == pointer

\* read(chunk_size)
Read(n) ==
    \E r \in ReadLoop(buffer, it_pos, n) :
        LET chunk == ReadChunk(r.buf, n)
        IN  /\ pointer' = pointer + Len(chunk)
            /\ buffer' = From(r.buf, Len(chunk))
            /\ it_pos' = r.pos
            /\ last' = Call("read", n, chunk, "none")
            /\ out' = out \o chunk
            /\ linesOnly' = FALSE
            /\ UNCHANGED <<content, consumed, requests, openerVars, retryVars, detectVars, fileVars, raceVars>>

\* next(); readline() is next() with StopIteration turned into ''
NextOrReadline(op) ==
    \E r \in NextLoop(buffer, it_pos, consumed) :
        /\ it_pos' = r.pos
        /\ consumed' = r.cons
        /\ IF NextHasLine(r.cons, r.buf)
           THEN LET line == NextLine(r.buf)
                IN  /\ pointer' = pointer + Len(line)
                    /\ buffer' = From(r.buf, Len(line))
                    /\ last' = Call(op, 0, line, "none")
                    /\ out' = out \o line
           ELSE /\ buffer' = r.buf
                /\ last' = Call(op, 0, << >>, IF op = "next" THEN "StopIteration" ELSE "none")
                /\ UNCHANGED <<pointer, out>>
        /\ UNCHANGED <<content, requests, linesOnly, openerVars, retryVars, detectVars, fileVars, raceVars>>

next == NextOrReadline("next")

readline == NextOrReadline("readline")

\* seek(position); _reopen_stream issues a new GET and clears _content_consumed
Seek(position) ==
    IF SeekMoves(position)
    THEN /\ requests < MaxRequests
         /\ \E r \in SeekLoop(position) :
              /\ requests' = requests + 1
              /\ consumed' = FALSE
              /\ it_pos' = r.pos
              /\ IF r.raised = "none"
                 THEN /\ pointer' = position
                      /\ buffer' = From(r.buf, position)
                 ELSE /\ buffer' = r.buf
                      /\ UNCHANGED pointer
              /\ last' = [Call("seek", position, << >>, r.raised) EXCEPT !.peak = Len(r.buf)]
              /\ linesOnly' = FALSE
              /\ UNCHANGED <<content, out, openerVars, retryVars, detectVars, fileVars, raceVars>>
    ELSE /\ last' = Call("seek", position, << >>, "none")
         /\ linesOnly' = FALSE
         /\ UNCHANGED <<content, buffer, pointer, it_pos, consumed, requests, out>>
         /\ UNCHANGED <<openerVars, retryVars, detectVars, fileVars, raceVars>>

NextStream ==
    \/ \E n \in 0 .. MaxLen + 1 : Read(n)
    \/ next
    \/ readline
    \/ \E position \in 0 .. MaxLen + 1 : Seek(position)

\* a body of more than two chunks, so that a seek can skip several of them
SeekLen == 2 * MaxChunk + 2
LongContents == {[i \in 1 .. n |-> "x"] : n \in 0 .. SeekLen}

\* HttpStreamWrapper.__init__ on a URL whose body is one of LongContents
InitSeek ==
    /\ content \in LongContents
    /\ buffer = << >>
    /\ pointer = 0
    /\ it_pos = 0
    /\ consumed = FALSE
    /\ requests = 1
    /\ last = [op |-> "init", arg |-> 0, ret |-> << >>, raised |-> "none",
               prePointer |-> 0, preAvail |-> content, peak |-> 0]
    /\ out = << >>
    /\ linesOnly = TRUE

NextSeek ==
    \/ \E n \in 0 .. SeekLen + 1 : Read(n)
    \/ readline
    \/ \E position \in 0 .. SeekLen + 1 : Seek(position)

(***************************************************************************)
(* The retry decorator                                                     *)
(***************************************************************************)
\* the requests (or other events) of two stretches of a call, added up
AddN(m, n) == [f \in DOMAIN m |-> m[f] + n[f]]

\* "for i in range(self.attempts): try: return func(...) except: continue",
\* then "return func(...)" uncaught.  Body is the set of outcomes one
\* invocation of func may have, each [ok, exc, n, res]: whether it returned,
\* the exception it raised, the events it counted and what it returned.
\* Accs holds what the invocations made so far (all of them failed) may have
\* counted.  The result is the set of runs one call of the decorated method
\* may make: the number of invocations, their counts added up, and the outcome
\* of the last invocation, which is the outcome of the call.
RECURSIVE RetryLoop(_, _, _, _)
RetryLoop(i, n, Body, Accs) ==
    LET runs == {[calls |-> a.calls + 1, n |-> AddN(a.n, o.n), fin |-> o] : a \in Accs, o \in Body}
        failed == {[calls |-> r.calls, n |-> r.n] : r \in {q \in runs : ~q.fin.ok}}
    IN  IF i < n
        THEN {r \in runs : r.fin.ok}
             \cup (IF failed = {} THEN {} ELSE RetryLoop(i + 1, n, Body, failed))
        ELSE runs

NoEvents(Body) == LET o == CHOOSE o \in Body : TRUE IN [f \in DOMAIN o.n |-> 0]

with_retry_OneMore(n, Body) == RetryLoop(0, n + 1, Body, {[calls |-> 0, n |-> NoEvents(Body)]})
\* retry(func): with_retry
with_retry(n, Body) == RetryLoop(0, n, Body, {[calls |-> 0, n |-> NoEvents(Body)]})

(***************************************************************************)
(* The server, /tmp and FormatDetector                                     *)
(***************************************************************************)
URL == "http://host/res"

\* a header the response does not carry
NoHeader == "<no header>"
NoLength == -1

\* "self.data_length > 10**8"
StreamThreshold == 100000000
\* stream.raw.stream(100, ...): the sniffed prefix
SniffSize == 100

LastModifieds == {NoHeader, "Mon"}
ContentLengths == {NoLength, StreamThreshold, StreamThreshold + 1}

GzipBody == <<31, 139, 8, 0>>
PlainBody == <<120, 120, 120>>
ErrorPage == <<60, 104, 49, 62>>
NoFile == <<-1>>

TransportErrors == {"Timeout", "ConnectionError"}
ProbeStatuses == {200, 405, 404}
GetStatuses == {200, 404}

\* the body of a GET response with the given status
ResponseBody(status) ==
    IF status = 200 THEN (IF server.gzip THEN GzipBody ELSE PlainBody) ELSE ErrorPage

\* the response to a HEAD request with the given status
Response(status) == [status |-> status, lm |-> server.lm, cl |-> server.cl]
NoInfo == [status |-> 0, lm |-> NoHeader, cl |-> NoLength]

\* headers.get(name, default)
HeaderGet(value, default) == IF value \in {NoHeader} THEN default ELSE value

\* python slice s[a:b], 0 <= a, 0 <= b
Slice(s, a, b) ==
    LET lo == Min(a, Len(s))
        hi == Min(b, Len(s))
    IN  IF lo >= hi THEN << >> ELSE SubSeq(s, lo + 1, hi)

\* FormatDetector.formats
formats ==
    {[fmt |-> "gzip", offset |-> 0, signature |-> <<31, 139>>],
     [fmt |-> "tar", offset |-> 257, signature |-> <<117, 115, 116, 97, 114, 0, 48, 48>>]}

\* "signature[1] == header[signature[0]:len(signature[1])]"
Matches(f, header) == f.signature = Slice(header, f.offset, Len(f.signature))

\* detect_format: the first format of the dict (in whatever order it iterates)
\* whose signature matches; None when none does
detect_format(header) ==
    LET m == {f \in formats : Matches(f, header)}
    IN  IF m = {} THEN {"None"} ELSE {f.fmt : f \in m}

(***************************************************************************)
(* HttpOpener: construction                                                *)
(***************************************************************************)
Openers == {"o1", "o2"}

NoOpener ==
    [state |-> "none", url |-> URL, data_info |-> NoInfo, force_download |-> FALSE,
     _filename |-> "None"]

hash_UrlOnly(o) == o.url \o "|"
\* HttpOpener.hash
hash(o) == o.url \o "|" \o HeaderGet(o.data_info.lm, "")

\* hashlib.md5(...).hexdigest(), taken to be free of collisions
Md5(str) == "md5<" \o str \o ">"

\* HttpOpener.tmpfile_path
tmpfile_path(o) == "/tmp/" \o Md5(hash(o)) \o ".downloaded_resource"

CachePaths == {tmpfile_path([url |-> URL, data_info |-> [lm |-> lm]]) : lm \in LastModifieds}

\* HttpOpener.data_length: int(headers.get("Content-Length", 0))
data_length(o) == IF o.data_info.cl = NoLength THEN 0 ELSE o.data_info.cl

ProbeSends_Once ==
    {[resp |-> Response(st), exc |-> "none", heads |-> 1] : st \in ProbeStatuses}
    \cup {[resp |-> NoInfo, exc |-> e, heads |-> 1] : e \in TransportErrors}
\* get_request_info: session.send, sent once more after a Timeout or a
\* ConnectionError; the second one's error is raised
ProbeSends ==
    {[resp |-> Response(st), exc |-> "none", heads |-> 1] : st \in ProbeStatuses}
    \cup {[resp |-> Response(st), exc |-> "none", heads |-> 2] : st \in ProbeStatuses}
    \cup {[resp |-> NoInfo, exc |-> e, heads |-> 2] : e \in TransportErrors}

\* raise_for_status(): 4xx and 5xx raise HTTPError
IsHttpError(status) == status >= 400

\* get_request_info: "if exc.response.status_code == 405"
ProbeForgiven(status) == status = 405

\* one invocation of get_request_info; n counts the HEAD requests sent and
\* whether the invocation ended in a transport error
ProbeBody ==
    {LET n == [heads |-> p.heads, tfailed |-> IF p.exc # "none" THEN 1 ELSE 0]
     IN  IF p.exc # "none"
         THEN [ok |-> FALSE, exc |-> p.exc, n |-> n, res |-> [info |-> p.resp, force |-> FALSE]]
         ELSE IF ~IsHttpError(p.resp.status)
         THEN [ok |-> TRUE, exc |-> "none", n |-> n, res |-> [info |-> p.resp, force |-> FALSE]]
         ELSE IF ProbeForgiven(p.resp.status)
         THEN [ok |-> TRUE, exc |-> "none", n |-> n, res |-> [info |-> p.resp, force |-> TRUE]]
         ELSE [ok |-> FALSE, exc |-> "HTTPError", n |-> n, res |-> [info |-> p.resp, force |-> FALSE]]
     : p \in ProbeSends}

\* the HttpOpener a successful get_request_info leaves
Constructed(res) ==
    [state |-> "ready", url |-> URL, data_info |-> res.info, force_download |-> res.force,
     _filename |-> "None"]

NoCall ==
    [op |-> "none", who |-> "none", use_cache |-> FALSE, ok |-> FALSE, raised |-> "none",
     calls |-> 0, heads |-> 0, tfailed |-> 0, sniffs |-> 0, sfailed |-> 0, gets |-> 0,
     timeouts |-> 0,
     streams |-> 0, dcalls |-> 0, fmt |-> "None", route |-> "none", result |-> "none",
     path |-> "None", existed |-> FALSE, wrote |-> NoFile, status |-> 0,
     materialized |-> FALSE, data |-> NoFile]

\* HttpOpener.__init__: the fields, then get_request_info under retry
Construct(i) ==
    /\ openers[i].state = "none"
    /\ \E run \in with_retry(attempts, ProbeBody) :
         /\ openers' = [openers EXCEPT ![i] =
                IF run.fin.ok THEN Constructed(run.fin.res) ELSE NoOpener]
         /\ olast' = [NoCall EXCEPT
                !.op = "init", !.who = i, !.ok = run.fin.ok, !.raised = run.fin.exc,
                !.calls = run.calls, !.heads = run.n.heads, !.tfailed = run.n.tfailed,
                !.status = run.fin.res.info.status]
    /\ UNCHANGED <<server, files, attempts, streamVars, retryVars, detectVars, fileVars, raceVars>>

\* the opener object is dropped by its owner
Discard(i) ==
    /\ openers[i].state = "ready"
    /\ openers' = [openers EXCEPT ![i] = NoOpener]
    /\ UNCHANGED <<server, files, attempts, olast, streamVars, retryVars, detectVars, fileVars, raceVars>>

\* the resource changes on the server: another Last-Modified is reported
ServerChange ==
    /\ \E lm \in LastModifieds \ {server.lm} : server' = [server EXCEPT !.lm = lm]
    /\ UNCHANGED <<files, attempts, openers, olast, streamVars, retryVars, detectVars, fileVars, raceVars>>

\* no HttpOpener yet
InitOpener ==
    /\ server \in [lm : LastModifieds, cl : ContentLengths, gzip : BOOLEAN]
    /\ files = [p \in CachePaths |-> NoFile]
    /\ attempts \in 0 .. MaxAttempts
    /\ openers = [i \in Openers |-> NoOpener]
    /\ olast = NoCall

NextOpener ==
    \/ \E i \in Openers : Construct(i)
    \/ \E i \in Openers : Discard(i)
    \/ ServerChange

(***************************************************************************)
(* HttpOpener: open and download_file                                      *)
(***************************************************************************)
CacheHit_ExistsOnly(exists, use_cache) == exists
\* download_file: "if os.path.exists(tmpfile_path) and use_cache"
CacheHit(exists, use_cache) == exists /\ use_cache

\* one invocation of download_file: the cache file is reused, or requests.get
\* times out, or its body (whatever its status) is written to the cache file
DownloadBody(exists, use_cache) ==
    IF CacheHit(exists, use_cache)
    THEN {[ok |-> TRUE, exc |-> "none", n |-> [gets |-> 0, timeouts |-> 0],
           res |-> [wrote |-> NoFile, status |-> 0]]}
    ELSE {[ok |-> FALSE, exc |-> "Timeout", n |-> [gets |-> 1, timeouts |-> 1],
           res |-> [wrote |-> NoFile, status |-> 0]]}
         \cup {[ok |-> TRUE, exc |-> "none", n |-> [gets |-> 1, timeouts |-> 0],
                res |-> [wrote |-> ResponseBody(st), status |-> st]] : st \in GetStatuses}

\* download_file under retry
download_file(exists, use_cache) == with_retry(attempts, DownloadBody(exists, use_cache))

StreamDecision_NoFormat(force, fmt, length) == ~force /\ length > StreamThreshold
\* open: "if not self.force_download and fmt != 'gzip' and self.data_length > 10**8"
StreamDecision(force, fmt, length) == ~force /\ fmt # "gzip" /\ length > StreamThreshold

\* one invocation of open: the sniffing GET, then HttpStreamWrapper(url) or
\* download_file and open / gzip.open of the cache file; n counts the sniffing
\* GETs, those of them that failed, the full-body GETs of download_file, those
\* of them that timed out, the HttpStreamWrapper constructions and the
\* invocations of download_file
OpenBody(o, exists, use_cache) ==
    LET Events(sfailed, gets, timeouts, streams, dcalls) ==
            [sniffs |-> 1, sfailed |-> sfailed, gets |-> gets, timeouts |-> timeouts,
             streams |-> streams, dcalls |-> dcalls]
        Res(fmt, route, result, wrote, status) ==
            [fmt |-> fmt, route |-> route, result |-> result, wrote |-> wrote,
             status |-> status]
        Streaming(fmt) ==
            {[ok |-> FALSE, exc |-> e, n |-> Events(0, 0, 0, 1, 0),
              res |-> Res(fmt, "Streaming", "none", NoFile, 0)] : e \in {"Timeout", "HTTPError"}}
            \cup {[ok |-> TRUE, exc |-> "none", n |-> Events(0, 0, 0, 1, 0),
                   res |-> Res(fmt, "Streaming", "HttpStreamWrapper", NoFile, 0)]}
        CachedDownload(fmt) ==
            {[ok |-> d.fin.ok, exc |-> d.fin.exc,
              n |-> Events(0, d.n.gets, d.n.timeouts, 0, d.calls),
              res |-> Res(fmt, "CachedDownload",
                          IF ~d.fin.ok THEN "none" ELSE IF fmt = "gzip" THEN "gzip.open" ELSE "open",
                          d.fin.res.wrote, d.fin.res.status)]
             : d \in download_file(exists, use_cache)}
    IN  {[ok |-> FALSE, exc |-> "Timeout", n |-> Events(1, 0, 0, 0, 0),
          res |-> Res("None", "none", "none", NoFile, 0)]}
        \cup UNION {UNION {IF StreamDecision(o.force_download, fmt, data_length(o))
                           THEN Streaming(fmt)
                           ELSE CachedDownload(fmt)
                           : fmt \in detect_format(Upto(ResponseBody(st), SniffSize))}
                    : st \in GetStatuses}

\* HttpOpener.__call__(use_cache): open under retry
Open(i, use_cache) ==
    /\ openers[i].state = "ready"
    /\ LET o == openers[i]
           path == tmpfile_path(o)
           exists == files[path] # NoFile
       IN  \E run \in with_retry(attempts, OpenBody(o, exists, use_cache)) :
             LET fin == run.fin
             IN  /\ files' = IF fin.ok /\ fin.res.wrote # NoFile
                             THEN [files EXCEPT ![path] = fin.res.wrote]
                             ELSE files
                 /\ openers' = IF fin.ok /\ fin.res.route = "CachedDownload"
                               THEN [openers EXCEPT ![i]._filename = path]
                               ELSE openers
                 /\ olast' = [NoCall EXCEPT
                        !.op = "open", !.who = i, !.use_cache = use_cache,
                        !.ok = fin.ok, !.raised = fin.exc, !.calls = run.calls,
                        !.sniffs = run.n.sniffs, !.sfailed = run.n.sfailed,
                        !.gets = run.n.gets,
                        !.timeouts = run.n.timeouts, !.streams = run.n.streams,
                        !.dcalls = run.n.dcalls,
                        !.fmt = fin.res.fmt, !.route = fin.res.route,
                        !.result = fin.res.result, !.path = path, !.existed = exists,
                        !.wrote = fin.res.wrote, !.status = fin.res.status]
    /\ UNCHANGED <<server, attempts, streamVars, retryVars, detectVars, fileVars, raceVars>>

FilenameMissing_Always(o) == TRUE
\* get_filename: "if not self._filename"
FilenameMissing(o) == o._filename = "None"

\* the property get_filename: download_file(use_cache=True) when no path has
\* been recorded on the instance, then self._filename
GetFilename(i) ==
    /\ openers[i].state = "ready"
    /\ LET o == openers[i]
           path == tmpfile_path(o)
           exists == files[path] # NoFile
       IN  IF FilenameMissing(o)
           THEN \E run \in download_file(exists, TRUE) :
                  LET fin == run.fin
                  IN  /\ files' = IF fin.ok /\ fin.res.wrote # NoFile
                                  THEN [files EXCEPT ![path] = fin.res.wrote]
                                  ELSE files
                      /\ openers' = IF fin.ok
                                    THEN [openers EXCEPT ![i]._filename = path]
                                    ELSE openers
                      /\ olast' = [NoCall EXCEPT
                             !.op = "get_filename", !.who = i, !.use_cache = TRUE,
                             !.ok = fin.ok, !.raised = fin.exc, !.calls = 1,
                             !.gets = run.n.gets, !.timeouts = run.n.timeouts,
                             !.dcalls = run.calls,
                             !.result = IF fin.ok THEN path ELSE "none",
                             !.path = path, !.existed = exists,
                             !.wrote = fin.res.wrote, !.status = fin.res.status,
                             !.materialized = o._filename # "None"]
           ELSE /\ olast' = [NoCall EXCEPT
                       !.op = "get_filename", !.who = i, !.use_cache = TRUE,
                       !.ok = TRUE, !.calls = 1, !.result = o._filename,
                       !.path = path, !.existed = exists, !.materialized = TRUE]
                /\ UNCHANGED <<files, openers>>
    /\ UNCHANGED <<server, attempts, streamVars, retryVars, detectVars, fileVars, raceVars>>

\* one HttpOpener, constructed: whatever a successful get_request_info may
\* have left in it; /tmp holds no cache file yet, or the one an earlier
\* process downloaded for the same URL and Last-Modified
InitOpen ==
    /\ server \in [lm : LastModifieds, cl : ContentLengths, gzip : BOOLEAN]
    /\ attempts \in 0 .. MaxAttempts
    /\ \E b \in {q \in ProbeBody : q.ok} :
         /\ openers = [i \in Openers |-> IF i = "o1" THEN Constructed(b.res) ELSE NoOpener]
         /\ \E f \in {NoFile, ResponseBody(200)} :
              files = [p \in CachePaths |->
                         IF p = tmpfile_path(Constructed(b.res)) THEN f ELSE NoFile]
    /\ olast = NoCall

NextOpen ==
    \/ \E i \in Openers, use_cache \in BOOLEAN : Open(i, use_cache)
    \/ \E i \in Openers : GetFilename(i)

(***************************************************************************)
(* ResourceManager.resource_string on an HTTP URL                          *)
(***************************************************************************)
\* gzip.GzipFile.read(): the payload of a file that starts with the gzip
\* magic (the model's gzip body is the magic followed by the payload),
\* IOError for any other file
GzipRead(file) ==
    IF Slice(file, 0, 2) = <<31, 139>>
    THEN [ok |-> TRUE, exc |-> "none", data |-> From(file, 2)]
    ELSE [ok |-> FALSE, exc |-> "IOError", data |-> NoFile]

\* resource.read(): a file object returns all the file holds; an
\* HttpStreamWrapper, whose read takes a chunk_size, raises TypeError
ReadAll(result, file) ==
    IF result = "HttpStreamWrapper"
    THEN [ok |-> FALSE, exc |-> "TypeError", data |-> NoFile]
    ELSE IF result = "gzip.open"
    THEN GzipRead(file)
    ELSE [ok |-> TRUE, exc |-> "none", data |-> file]

\* the outcomes of the runs of a decorated method: what the last invocation
\* did, the invocations before it forgotten
Outcomes(runs) == {run.fin : run \in runs}

\* resource_string(URL): get_opener constructs an HttpOpener (the probe),
\* get_filename downloads the body or finds the cache file, opener(filename,
\* 'r') opens the resource with a true use_cache, and resource.read() reads it
ResourceString ==
    /\ \E probe \in Outcomes(with_retry(attempts, ProbeBody)) :
         LET o == Constructed(probe.res)
             path == tmpfile_path(o)
             Record(ok, raised, dl, op, data) ==
                 [NoCall EXCEPT
                    !.op = "resource_string", !.use_cache = TRUE, !.ok = ok,
                    !.raised = raised, !.path = path,
                    !.existed = files[path] # NoFile,
                    !.fmt = op.fmt, !.route = op.route, !.result = op.result,
                    !.wrote = dl.wrote, !.status = dl.status, !.data = data]
             NoDownload == [wrote |-> NoFile, status |-> 0]
             NoOpen == [fmt |-> "None", route |-> "none", result |-> "none"]
         IN  IF ~probe.ok
             THEN /\ olast' = Record(FALSE, probe.exc, NoDownload, NoOpen, NoFile)
                  /\ UNCHANGED files
             ELSE \E dl \in Outcomes(download_file(files[path] # NoFile, TRUE)) :
                    IF ~dl.ok
                    THEN /\ olast' = Record(FALSE, dl.exc, dl.res, NoOpen, NoFile)
                         /\ UNCHANGED files
                    ELSE LET file == IF dl.res.wrote # NoFile
                                     THEN dl.res.wrote ELSE files[path]
                             opened == [o EXCEPT !._filename = path]
                         IN  /\ files' = [files EXCEPT ![path] = file]
                             /\ \E op \in Outcomes(with_retry(attempts,
                                                             OpenBody(opened, TRUE, TRUE))) :
                                  IF ~op.ok
                                  THEN olast' = Record(FALSE, op.exc, dl.res, op.res, NoFile)
                                  ELSE LET rd == ReadAll(op.res.result, file)
                                       IN  olast' = Record(rd.ok, rd.exc, dl.res, op.res, rd.data)
    /\ UNCHANGED <<server, attempts, openers, streamVars, retryVars, detectVars, fileVars, raceVars>>

\* no opener is kept: /tmp holds no cache file yet, or the one an earlier
\* call left for one of the Last-Modified values
InitManager ==
    /\ server \in [lm : LastModifieds, cl : ContentLengths, gzip : BOOLEAN]
    /\ attempts \in 0 .. MaxAttempts
    /\ files \in [CachePaths -> {NoFile, ResponseBody(200)}]
    /\ openers = [i \in Openers |-> NoOpener]
    /\ olast = NoCall

NextManager == ResourceString

(***************************************************************************)
(* A method under the retry decorator, on its own                          *)
(***************************************************************************)
Exceptions == {"E1", "E2", "E3"}
Values == {"r1", "r2"}

\* what one invocation of the wrapped method may do: return a value or raise;
\* n counts the invocations that returned and those that raised, by exception
MethodBody ==
    {[ok |-> TRUE, exc |-> "none", res |-> v,
      n |-> [e \in Exceptions \cup {"returned"} |-> IF e = "returned" THEN 1 ELSE 0]]
     : v \in Values}
    \cup {[ok |-> FALSE, exc |-> x, res |-> "none",
           n |-> [e \in Exceptions \cup {"returned"} |-> IF e = x THEN 1 ELSE 0]]
          : x \in Exceptions}

NoRun == [calls |-> 0, n |-> [e \in Exceptions \cup {"returned"} |-> 0]]

InitRetry ==
    /\ r_attempts \in 0 .. MaxRetryAttempts
    /\ r_calls = NoRun
    /\ r_result = [returned |-> "none", raised |-> "none"]

\* one call of the decorated method
CallWithRetry ==
    /\ \E run \in with_retry(r_attempts, MethodBody) :
         /\ r_calls' = [calls |-> run.calls, n |-> run.n]
         /\ r_result' = [returned |-> run.fin.res, raised |-> run.fin.exc]
    /\ UNCHANGED <<r_attempts, streamVars, openerVars, detectVars, fileVars, raceVars>>

NextRetry == CallWithRetry

(***************************************************************************)
(* FormatDetector on its own                                               *)
(***************************************************************************)
\* the bytes a header may start with: the gzip magic's and another one
HeadBytes == {31, 139, 117}
Heads ==
    {<< >>} \cup {<<a>> : a \in HeadBytes} \cup {<<a, b>> : a \in HeadBytes, b \in HeadBytes}

\* what a header may hold where a tar archive has its magic and version:
\* nothing, "ustar\0", "ustar\0" "00" (POSIX), "ustar  \0" (GNU), "us"
MagicFields ==
    {<< >>,
     <<117, 115, 116, 97, 114, 0>>,
     <<117, 115, 116, 97, 114, 0, 48, 48>>,
     <<117, 115, 116, 97, 114, 32, 32, 0>>,
     <<117, 115>>}

\* the headers detect_format is given: short ones, and ones filled with zero
\* bytes up to the tar format's offset and carrying a magic field there
Headers ==
    Heads \cup
    {h \o [i \in 1 .. (f.offset - Len(h)) |-> 0] \o m :
        h \in Heads, m \in MagicFields, f \in {g \in formats : g.fmt = "tar"}}

InitDetect ==
    /\ d_header \in Headers
    /\ d_fmt = "unset"

\* detect_format(header)
Detect ==
    /\ d_fmt = "unset"
    /\ d_fmt' \in detect_format(d_header)
    /\ UNCHANGED <<d_header, streamVars, openerVars, retryVars, fileVars, raceVars>>

\* the caller takes another header
NewHeader ==
    /\ d_fmt # "unset"
    /\ d_header' \in Headers
    /\ d_fmt' = "unset"
    /\ UNCHANGED <<streamVars, openerVars, retryVars, fileVars, raceVars>>

NextDetect == Detect \/ NewHeader

(***************************************************************************)
(* FileOpener.hash                                                         *)
(*                                                                         *)
(* The file's times are kept as seconds and milliseconds.  os.stat as a    *)
(* tuple gives the times as whole seconds; os.path.getmtime gives a float, *)
(* and str of a float keeps 12 significant digits.                         *)
(***************************************************************************)
Seconds == {1500000000, 1500000001}
Millis == {0, 4}
TimeStamps == [sec : Seconds, ms : Millis]

\* t1 is not later than t2
NotLater(t1, t2) == t1.sec < t2.sec \/ (t1.sec = t2.sec /\ t1.ms <= t2.ms)

Modes == {33188, 33261}
Sizes == {0, 3}

FilePaths == {"/data/ammo", "ammo"}
\* os.path.realpath, the working directory being /data
realpath(path) == IF path = "ammo" THEN "/data/ammo" ELSE path

Stats ==
    [st_mode : Modes, st_ino : {7}, st_dev : {2049}, st_nlink : {1}, st_uid : {1000},
     st_gid : {1000}, st_size : Sizes, st_atime : TimeStamps, st_mtime : TimeStamps,
     st_ctime : TimeStamps]

\* os.stat(...) iterated as a tuple: ten integers
stat_tuple(st) ==
    <<st.st_mode, st.st_ino, st.st_dev, st.st_nlink, st.st_uid, st.st_gid, st.st_size,
      st.st_atime.sec, st.st_mtime.sec, st.st_ctime.sec>>

Digit(d) ==
    CASE d = 0 -> "0" [] d = 1 -> "1" [] d = 2 -> "2" [] d = 3 -> "3" [] d = 4 -> "4"
      [] d = 5 -> "5" [] d = 6 -> "6" [] d = 7 -> "7" [] d = 8 -> "8" [] d = 9 -> "9"

\* str of a non-negative integer
RECURSIVE IntStr(_)
IntStr(n) == IF n < 10 THEN Digit(n) ELSE IntStr(n \div 10) \o Digit(n % 10)

RECURSIVE Digits(_)
Digits(n) == IF n < 10 THEN 1 ELSE 1 + Digits(n \div 10)

RECURSIVE Pow10(_)
Pow10(k) == IF k = 0 THEN 1 ELSE 10 * Pow10(k - 1)

\* the significant digits str keeps of a float
SigDigits == 12

\* d decimal digits of f, leading zeros kept
RECURSIVE PadStr(_, _)
PadStr(f, d) == IF d = 0 THEN "" ELSE PadStr(f \div 10, d - 1) \o Digit(f % 10)

\* the decimals of a float as str prints them: trailing zeros dropped, one kept
RECURSIVE FracStr(_, _)
FracStr(f, d) ==
    IF d = 0 THEN "0"
    ELSE IF f % 10 = 0 THEN FracStr(f \div 10, d - 1)
    ELSE PadStr(f, d)

\* str(os.path.getmtime(...)): the float rounded to SigDigits significant digits
FloatStr(t) ==
    LET left == SigDigits - Digits(t.sec)
        dec == IF left > 3 THEN 3 ELSE IF left < 0 THEN 0 ELSE left
        unit == Pow10(3 - dec)
        q == (t.ms + (unit \div 2)) \div unit
        carry == q = Pow10(dec)
    IN  IntStr(IF carry THEN t.sec + 1 ELSE t.sec) \o "." \o FracStr(IF carry THEN 0 ELSE q, dec)

\* hash: "if cnt == 7: continue"
SkipField(cnt) == cnt = 7

\* hash: the loop over the stat tuple; i is the 0-based index of stat_option,
\* taken is the indexes whose value was appended so far
RECURSIVE HashLoop(_, _, _, _, _)
HashLoop(tuple, i, cnt, hashed_str, taken) ==
    IF i >= Len(tuple)
    THEN [hashed_str |-> hashed_str, taken |-> taken]
    ELSE IF SkipField(cnt)
         THEN HashLoop(tuple, i + 1, cnt, hashed_str, taken)
         ELSE HashLoop(tuple, i + 1, cnt + 1, hashed_str \o ";" \o IntStr(tuple[i + 1]),
                       Append(taken, i))

\* FileOpener.hash
FileHash(path, st) ==
    LET loop == HashLoop(stat_tuple(st), 0, 0, realpath(path), << >>)
    IN  [key |-> loop.hashed_str \o ";" \o FloatStr(st.st_mtime), taken |-> loop.taken]

NoHash == [called |-> FALSE, stat |-> << >>, key |-> "", taken |-> << >>]

\* a file just written, and its FileOpener
InitFile ==
    /\ f_path \in FilePaths
    /\ \E st \in Stats :
         /\ st.st_atime = st.st_mtime /\ st.st_ctime = st.st_mtime
         /\ f_stat = st
    /\ f_hashed = NoHash

\* the latest of the file's times: the clock does not run backwards
Newest(st) ==
    CHOOSE t \in {st.st_atime, st.st_mtime, st.st_ctime} :
        \A u \in {st.st_atime, st.st_mtime, st.st_ctime} : NotLater(u, t)

Nows == {t \in TimeStamps : NotLater(Newest(f_stat), t)}

\* the property hash is evaluated
HashCall ==
    /\ LET h == FileHash(f_path, f_stat)
       IN  f_hashed' = [called |-> TRUE, stat |-> f_stat, key |-> h.key, taken |-> h.taken]
    /\ UNCHANGED <<f_path, f_stat, streamVars, openerVars, retryVars, detectVars, raceVars>>

\* somebody reads the file: the access time moves
FileRead ==
    /\ \E now \in Nows : f_stat' = [f_stat EXCEPT !.st_atime = now]
    /\ UNCHANGED <<f_path, f_hashed, streamVars, openerVars, retryVars, detectVars, raceVars>>

\* somebody writes the file: modification and change time move, the size may change
FileWrite ==
    /\ \E now \in Nows, size \in Sizes :
         f_stat' = [f_stat EXCEPT !.st_mtime = now, !.st_ctime = now, !.st_size = size]
    /\ UNCHANGED <<f_path, f_hashed, streamVars, openerVars, retryVars, detectVars, raceVars>>

\* somebody changes the file's mode: the change time moves
FileChmod ==
    /\ \E now \in Nows, mode \in Modes \ {f_stat.st_mode} :
         f_stat' = [f_stat EXCEPT !.st_mode = mode, !.st_ctime = now]
    /\ UNCHANGED <<f_path, f_hashed, streamVars, openerVars, retryVars, detectVars, raceVars>>

NextFile == HashCall \/ FileRead \/ FileWrite \/ FileChmod

(***************************************************************************)
(* Two processes in download_file for one cache file                       *)
(*                                                                         *)
(* Each process runs download_file under retry; its steps are the          *)
(* existence check, the full-body GET, open(tmpfile_path, "wb"), the       *)
(* writes that f.write and f.close hand to the file, and f.close.  The     *)
(* caller then reads the file whose path it was given.                     *)
(***************************************************************************)
Procs == {"p1", "p2"}

NewProc(use_cache) ==
    [pc |-> "check", use_cache |-> use_cache, tries |-> 0, data |-> NoFile, pos |-> 0,
     reused |-> FALSE, seen |-> NoFile]

InitRace ==
    /\ cache = NoFile
    /\ procs \in {[p \in Procs |-> NewProc(u[p])] : u \in [Procs -> BOOLEAN]}

\* the other parts stay as they are
RaceStep(p, proc) ==
    /\ procs' = [procs EXCEPT ![p] = proc]
    /\ UNCHANGED <<streamVars, openerVars, retryVars, detectVars, fileVars>>

\* "if os.path.exists(tmpfile_path) and use_cache": reuse, or go and download
Check(p) ==
    /\ procs[p].pc = "check"
    /\ IF CacheHit(cache # NoFile, procs[p].use_cache)
       THEN RaceStep(p, [procs[p] EXCEPT !.pc = "returned", !.reused = TRUE])
       ELSE RaceStep(p, [procs[p] EXCEPT !.pc = "get"])
    /\ UNCHANGED cache

\* requests.get returns a response
GetBody(p) ==
    /\ procs[p].pc = "get"
    /\ \E st \in GetStatuses :
         RaceStep(p, [procs[p] EXCEPT !.pc = "open", !.data = ResponseBody(st)])
    /\ UNCHANGED cache

\* requests.get times out: retry invokes download_file again, or gives up
GetTimeout(p) ==
    /\ procs[p].pc = "get"
    /\ IF procs[p].tries < MaxAttempts
       THEN RaceStep(p, [procs[p] EXCEPT !.pc = "check", !.tries = @ + 1])
       ELSE RaceStep(p, [procs[p] EXCEPT !.pc = "raised"])
    /\ UNCHANGED cache

\* f = open(tmpfile_path, "wb"): the file is created or truncated
OpenForWrite(p) ==
    /\ procs[p].pc = "open"
    /\ cache' = << >>
    /\ RaceStep(p, [procs[p] EXCEPT !.pc = "write", !.pos = 0])

\* the file after block is written at offset pos (a gap is filled with zeros)
WriteAt(file, pos, block) ==
    LET end == pos + Len(block)
        len == IF Len(file) > end THEN Len(file) ELSE end
    IN  [i \in 1 .. len |->
            IF i > pos /\ i <= end THEN block[i - pos]
            ELSE IF i <= Len(file) THEN file[i] ELSE 0]

\* f.write(data.content) / f.close(): the next k bytes reach the file at the
\* process's own file offset
WriteBlock(p) ==
    /\ procs[p].pc = "write"
    /\ procs[p].pos < Len(procs[p].data)
    /\ \E k \in 1 .. (Len(procs[p].data) - procs[p].pos) :
         /\ cache' = WriteAt(IF cache = NoFile THEN << >> ELSE cache, procs[p].pos,
                             SubSeq(procs[p].data, procs[p].pos + 1, procs[p].pos + k))
         /\ RaceStep(p, [procs[p] EXCEPT !.pos = @ + k])

\* f.close() returns; download_file returns tmpfile_path
Close(p) ==
    /\ procs[p].pc = "write"
    /\ procs[p].pos = Len(procs[p].data)
    /\ RaceStep(p, [procs[p] EXCEPT !.pc = "returned"])
    /\ UNCHANGED cache

\* the caller reads the file download_file gave it
ReadCacheFile(p) ==
    /\ procs[p].pc = "returned"
    /\ cache # NoFile
    /\ RaceStep(p, [procs[p] EXCEPT !.pc = "read", !.seen = cache])
    /\ UNCHANGED cache

NextRace ==
    \E p \in Procs :
        \/ Check(p)
        \/ GetBody(p)
        \/ GetTimeout(p)
        \/ OpenForWrite(p)
        \/ WriteBlock(p)
        \/ Close(p)
        \/ ReadCacheFile(p)

(***************************************************************************)
(* The specifications                                                      *)
(***************************************************************************)
\* the parts a specification does not run stay as they are
IdleStream ==
    /\ content = << >> /\ buffer = << >> /\ pointer = 0 /\ it_pos = 0
    /\ consumed = FALSE /\ requests = 0 /\ out = << >> /\ linesOnly = TRUE
    /\ last = [op |-> "init", arg |-> 0, ret |-> << >>, raised |-> "none",
               prePointer |-> 0, preAvail |-> << >>, peak |-> 0]

IdleOpener ==
    /\ server = [lm |-> NoHeader, cl |-> NoLength, gzip |-> FALSE]
    /\ files = [p \in CachePaths |-> NoFile]
    /\ attempts = 0
    /\ openers = [i \in Openers |-> NoOpener]
    /\ olast = NoCall

IdleRetry ==
    /\ r_attempts = 0
    /\ r_calls = NoRun
    /\ r_result = [returned |-> "none", raised |-> "none"]

IdleDetect ==
    /\ d_header = << >>
    /\ d_fmt = "unset"

IdleFile ==
    /\ f_path = "/data/ammo"
    /\ f_stat = [st_mode |-> 33188, st_ino |-> 7, st_dev |-> 2049, st_nlink |-> 1,
                 st_uid |-> 1000, st_gid |-> 1000, st_size |-> 0,
                 st_atime |-> [sec |-> 1500000000, ms |-> 0],
                 st_mtime |-> [sec |-> 1500000000, ms |-> 0],
                 st_ctime |-> [sec |-> 1500000000, ms |-> 0]]
    /\ f_hashed = NoHash

IdleRace ==
    /\ cache = NoFile
    /\ procs = [p \in Procs |-> NewProc(FALSE)]

StreamInit == InitStream /\ IdleOpener /\ IdleRetry /\ IdleDetect /\ IdleFile /\ IdleRace

SeekInit == InitSeek /\ IdleOpener /\ IdleRetry /\ IdleDetect /\ IdleFile /\ IdleRace

OpenerInit == InitOpener /\ IdleStream /\ IdleRetry /\ IdleDetect /\ IdleFile /\ IdleRace

OpenInit == InitOpen /\ IdleStream /\ IdleRetry /\ IdleDetect /\ IdleFile /\ IdleRace

ManagerInit == InitManager /\ IdleStream /\ IdleRetry /\ IdleDetect /\ IdleFile /\ IdleRace

RetryInit == InitRetry /\ IdleStream /\ IdleOpener /\ IdleDetect /\ IdleFile /\ IdleRace

DetectInit == InitDetect /\ IdleStream /\ IdleOpener /\ IdleRetry /\ IdleFile /\ IdleRace

FileInit == InitFile /\ IdleStream /\ IdleOpener /\ IdleRetry /\ IdleDetect /\ IdleRace

RaceInit == InitRace /\ IdleStream /\ IdleOpener /\ IdleRetry /\ IdleDetect /\ IdleFile

\* one HttpStreamWrapper and its consumer
SpecStream == StreamInit /\ [][NextStream]_vars

\* one HttpStreamWrapper over a long body and its consumer
SpecSeek == SeekInit /\ [][NextSeek]_vars

\* HttpOpener objects being constructed against a server
SpecOpener == OpenerInit /\ [][NextOpener]_vars

\* a constructed HttpOpener being called
SpecOpen == OpenInit /\ [][NextOpen]_vars

\* resource_string being called on the URL
SpecManager == ManagerInit /\ [][NextManager]_vars

\* a decorated method being called
SpecRetry == RetryInit /\ [][NextRetry]_vars

\* detect_format being called on headers
SpecDetect == DetectInit /\ [][NextDetect]_vars

\* a local file being read, written and hashed
SpecFile == FileInit /\ [][NextFile]_vars

\* two processes downloading to one cache file
SpecRace == RaceInit /\ [][NextRace]_vars

(***************************************************************************)
(* Claims about HttpStreamWrapper (checked under SpecStream)               *)
(***************************************************************************)
LineCalls == {"next", "readline"}

\* no byte is left for the consumer: the buffer is empty and the iterator is
\* at the end of the body
Exhausted == Avail = << >>

\* C1 (as claimed): right after seek(p) with 0 < p <= len(content), in whatever
\* state seek was called, tell() is p and read(n) returns content[p : p+n] for
\* every n with p + n <= len(content), whatever the chunking.
C1_SeekThenRead ==
    (last.op = "seek" /\ last.arg > 0 /\ last.arg <= Len(content)) =>
        /\ tell = last.arg
        /\ \A n \in 0 .. (Len(content) - last.arg) :
             \A r \in ReadLoop(buffer, it_pos, n) :
                 ReadChunk(r.buf, n) = SubSeq(content, last.arg + 1, last.arg + n)

\* C2: a consumer that calls only readline()/next() gets a prefix of the
\* content at every moment; once a call signals the end (readline returns '',
\* next raises StopIteration) the concatenation of the pieces is the whole
\* content; a piece holds one newline at most, as its last byte, and a piece
\* that does not end with a newline is the last one (nothing is left after it).
C2_ReadlineRoundTrip ==
    /\ linesOnly => (out = Upto(content, Len(out)) /\ tell = Len(out))
    /\ (linesOnly /\ last.op \in LineCalls /\ last.ret = << >>) =>
           (out = content /\ (last.op = "next" <=> last.raised = "StopIteration"))
    /\ (linesOnly /\ last.op \in LineCalls /\ last.ret # << >>) =>
           /\ \A i \in 1 .. (Len(last.ret) - 1) : last.ret[i] # NL
           /\ last.ret[Len(last.ret)] # NL => (out = content /\ Exhausted)

\* a stream with a final unterminated line was read to its end by readline()
C2_Witness ==
    /\ linesOnly
    /\ content = <<"x", NL, "x">>
    /\ last.op = "readline" /\ last.ret = << >>
    /\ out = content

\* C3: read(n) returns the first min(n, remaining) bytes of what remains in the
\* stream (the buffer followed by the bytes not pulled yet), which are
\* content[tell : tell+n] whenever the buffer is aligned with the pointer; it
\* returns fewer than n bytes only when the stream has ended; tell() advances
\* by the number of bytes returned.
C3_ReadReturnsNextBytes ==
    last.op = "read" =>
        /\ Len(last.ret) = Min(last.arg, Len(last.preAvail))
        /\ last.ret = Upto(last.preAvail, last.arg)
        /\ (last.prePointer + Len(last.preAvail) = Len(content)) =>
               last.ret = SubSeq(content, last.prePointer + 1, last.prePointer + Len(last.ret))
        /\ Len(last.ret) < last.arg => Exhausted
        /\ tell = last.prePointer + Len(last.ret)
        /\ Avail = From(last.preAvail, Len(last.ret))

\* a read in the middle of the stream that came back short because the stream ended
C3_Witness ==
    /\ last.op = "read"
    /\ last.prePointer > 0
    /\ last.ret # << >>
    /\ Len(last.ret) < last.arg
    /\ last.ret = From(content, last.prePointer)

\* C4 (as claimed): readline() returns '' (next() raises StopIteration) and
\* read(n), for every n, returns '' if and only if no byte of the content was
\* left to return; an exhausted stream stays exhausted under read/readline,
\* with tell() unchanged and nothing raised but next()'s StopIteration.
C4_ExhaustionIffEnd_AnyN ==
    last.op \in LineCalls \cup {"read"} =>
        /\ last.ret = << >> <=> last.preAvail = << >>
        /\ last.preAvail = << >> =>
               /\ Exhausted
               /\ tell = last.prePointer
               /\ last.raised = (IF last.op = "next" THEN "StopIteration" ELSE "none")
        /\ last.preAvail # << >> => last.raised = "none"

\* C4 (amended): the same for readline(), next() and read(n) with n >= 1;
\* read(0) returns '' anywhere in the stream.
C4_ExhaustionIffEnd ==
    (last.op \in LineCalls \/ (last.op = "read" /\ last.arg >= 1)) =>
        /\ last.ret = << >> <=> last.preAvail = << >>
        /\ last.preAvail = << >> =>
               /\ Exhausted
               /\ tell = last.prePointer
               /\ last.raised = (IF last.op = "next" THEN "StopIteration" ELSE "none")
        /\ last.preAvail # << >> => last.raised = "none"

\* a read(n), n >= 1, on a stream whose non-empty content was all returned before
C4_Witness ==
    /\ content # << >>
    /\ last.op = "read" /\ last.arg >= 1
    /\ last.preAvail = << >>
    /\ last.ret = << >>
    /\ tell = Len(content)
    /\ out = content

\* C15 (as claimed): during a seek the buffer never holds more than a few
\* chunk-sizes of data, however far the seek goes; "a few" is taken as two
\* here, and any other number is passed by a seek that goes far enough.
C15_SeekBufferBounded ==
    last.op = "seek" => last.peak <= 2 * chunk_size

\* the buffer holds the bytes of the content from the pointer on, up to what
\* was pulled from the connection
Aligned ==
    /\ pointer + Len(buffer) = it_pos
    /\ buffer = SubSeq(content, pointer + 1, pointer + Len(buffer))

\* C18 (as claimed): after any calls of read, readline, next and seek, a seek
\* that raised included, the buffer is content[pointer : pointer+len(buffer)],
\* pointer + len(buffer) is the number of bytes pulled from the connection, and
\* tell() is the offset of the next byte that will be returned.
C18_PointerBufferInvariant ==
    /\ Aligned
    /\ Avail = From(content, tell)

\* the last call was a seek(0) on a wrapper whose pointer was not 0
Rewound == last.op = "seek" /\ last.arg = 0 /\ last.prePointer # 0

\* C20: a seek(0) called with tell() not 0 raises nothing and leaves tell() at 0,
\* the whole content still to come and the end-of-stream flag down; from such a
\* state (from any state where the buffer is aligned with the pointer) each
\* read(n), readline() and next() returns the bytes of the content from tell()
\* on and signals the end only at the end of the content, so the reads
\* reproduce the content from its first byte to its end; a seek(0) called with
\* tell() at 0 issues no request and changes nothing.
C20_RewindReproducesContent ==
    /\ [](Rewound =>
            /\ last.raised = "none"
            /\ tell = 0
            /\ Avail = content
            /\ ~consumed
            /\ Aligned)
    /\ [][/\ (last'.op = "seek" /\ last'.arg = 0 /\ pointer = 0) =>
                UNCHANGED <<content, buffer, pointer, it_pos, consumed, requests, out>>
          /\ (Aligned /\ last'.op \in LineCalls \cup {"read"}) =>
                /\ Aligned'
                /\ last'.ret = SubSeq(content, pointer + 1, pointer')
                /\ out' = out \o last'.ret
                /\ requests' = requests
                /\ (last'.ret = << >> /\ (last'.op \in LineCalls \/ last'.arg >= 1)) =>
                       pointer' = Len(content)]_vars

\* the content was read to its end, the wrapper was rewound by seek(0) and the
\* content was read to its end once more
C20_Witness ==
    /\ content = <<"x", NL, "x">>
    /\ requests = 2
    /\ out = content \o content
    /\ tell = Len(content)
    /\ last.op = "readline" /\ last.ret = << >>

(***************************************************************************)
(* Claims about HttpOpener (checked under SpecOpen and SpecOpener)         *)
(***************************************************************************)
\* C5: open takes the Streaming path (and, when it succeeds, returns an
\* HttpStreamWrapper) if and only if the sniffed format is not gzip, the
\* force-download flag is unset and the declared Content-Length is above 10^8
\* (an absent Content-Length counts as 0); otherwise it goes through
\* download_file and, when it succeeds, returns a stream over the cache file.
C5_StreamingIffPlainUnforcedAndBig ==
    (olast.op = "open" /\ olast.route # "none") =>
        LET o == openers[olast.who]
        IN  /\ olast.route = "Streaming" <=>
                   (/\ olast.fmt # "gzip"
                    /\ ~o.force_download
                    /\ o.data_info.cl # NoLength
                    /\ o.data_info.cl > 100000000)
            /\ olast.route = "Streaming" =>
                   /\ olast.streams >= 1 /\ olast.wrote = NoFile
                   /\ olast.ok <=> olast.result = "HttpStreamWrapper"
            /\ olast.route = "CachedDownload" =>
                   /\ olast.dcalls >= 1
                   /\ olast.ok <=> olast.result \in {"open", "gzip.open"}
                   /\ olast.result = "gzip.open" <=> (olast.ok /\ olast.fmt = "gzip")
                   /\ olast.ok => (files[olast.path] # NoFile /\ o._filename = olast.path)

\* a plain resource of more than 10^8 bytes was opened as a stream
C5_Witness ==
    /\ olast.op = "open" /\ olast.ok
    /\ olast.result = "HttpStreamWrapper"
    /\ olast.fmt = "None"
    /\ openers[olast.who].data_info.cl = 100000001

\* C6: an open that goes through download_file and succeeds leaves a cache file;
\* with use_cache enabled and the cache file there it issues no full-body GET
\* and writes nothing; otherwise (no cache file yet, or use_cache disabled)
\* exactly one full-body GET returns a body, every other GET it issued having
\* timed out, and that body is written over the cache file.  Hence of two
\* requests with use_cache enabled, starting with no cache file, the first
\* downloads once and the second reuses the file.
C6_OneDownloadThenReuse ==
    (olast.op = "open" /\ olast.ok /\ olast.route = "CachedDownload") =>
        /\ files[olast.path] # NoFile
        /\ (olast.use_cache /\ olast.existed) =>
               (olast.gets = 0 /\ olast.wrote = NoFile)
        /\ (~olast.use_cache \/ ~olast.existed) =>
               /\ olast.gets = olast.timeouts + 1
               /\ olast.wrote # NoFile
               /\ files[olast.path] = olast.wrote

\* a request with use_cache enabled that found the cache file of an earlier one
C6_Witness ==
    /\ olast.op = "open" /\ olast.ok /\ olast.route = "CachedDownload"
    /\ olast.use_cache /\ olast.existed
    /\ olast.gets = 0
    /\ files[olast.path] = PlainBody

\* C7: two HttpOpener objects for the same URL that saw the same Last-Modified
\* value (or both none) have the same cache key and the same cache file path,
\* whatever else they saw; two that saw different Last-Modified values have
\* different cache keys.
C7_CacheKeyFromUrlAndLastModified ==
    \A i, j \in Openers :
        (openers[i].state = "ready" /\ openers[j].state = "ready"
         /\ openers[i].url = openers[j].url) =>
            /\ openers[i].data_info.lm = openers[j].data_info.lm =>
                   /\ hash(openers[i]) = hash(openers[j])
                   /\ tmpfile_path(openers[i]) = tmpfile_path(openers[j])
            /\ openers[i].data_info.lm # openers[j].data_info.lm =>
                   hash(openers[i]) # hash(openers[j])

\* two openers that saw the same Last-Modified, one of them after a 405
C7_Witness ==
    /\ openers["o1"].state = "ready" /\ openers["o2"].state = "ready"
    /\ openers["o1"].data_info.lm = "Mon" /\ openers["o2"].data_info.lm = "Mon"
    /\ openers["o1"].force_download /\ ~openers["o2"].force_download
    /\ tmpfile_path(openers["o1"]) = tmpfile_path(openers["o2"])

\* C8 (as claimed): a construction that fails on a timeout or a connection
\* error has sent exactly two probe requests.
C8_FailsAfterTwoProbes ==
    (olast.op = "init" /\ ~olast.ok /\ olast.raised \in TransportErrors) => olast.heads = 2

\* C8 (amended): one invocation of get_request_info sends the probe once more
\* after a timeout or connection error and fails when that one fails too, so an
\* invocation that ends in a transport error has sent two probes; the retry
\* wrapper invokes get_request_info again, and construction fails only when
\* attempts + 1 invocations have failed: after exactly 2 * (attempts + 1) failed
\* probe requests when every invocation ends in a transport error.
C8_FailsAfterAllInvocationsFail ==
    olast.op = "init" =>
        /\ olast.calls >= 1 /\ olast.calls <= attempts + 1
        /\ olast.heads >= olast.calls + olast.tfailed
        /\ olast.heads <= 2 * olast.calls
        /\ olast.ok => olast.tfailed <= olast.calls - 1
        /\ ~olast.ok => (olast.calls = attempts + 1 /\ olast.raised # "none")
        /\ (~olast.ok /\ olast.raised \in TransportErrors) => olast.tfailed >= 1
        /\ olast.tfailed = olast.calls =>
               /\ ~olast.ok
               /\ olast.raised \in TransportErrors
               /\ olast.heads = 2 * (attempts + 1)

\* a construction with attempts = 1 that failed after four failed probes
C8_Witness ==
    /\ olast.op = "init" /\ ~olast.ok
    /\ attempts = 1
    /\ olast.tfailed = olast.calls
    /\ olast.heads = 4
    /\ olast.raised = "ConnectionError"

\* C9 (as claimed): a constructed opener saw a 2xx probe status, or a 405 and
\* then has the force-download flag set; a construction whose last probe
\* status is another non-2xx one fails; and an open whose full-body GET got a
\* non-2xx status fails without that body being written to the cache file.
C9_Non2xxIsFatal ==
    /\ \A i \in Openers :
         openers[i].state = "ready" =>
            /\ openers[i].data_info.status \in {200, 405}
            /\ openers[i].force_download <=> openers[i].data_info.status = 405
    /\ (olast.op = "init" /\ olast.status >= 400 /\ olast.status # 405) => ~olast.ok
    /\ (olast.op = "open" /\ olast.status >= 400) =>
           (~olast.ok /\ olast.wrote = NoFile)
    /\ \A p \in CachePaths : files[p] # ErrorPage

\* C11: get_filename runs download_file with use_cache enabled exactly when no
\* path is recorded on the instance yet: the cache file is reused without a
\* request when it is there and is downloaded otherwise, whether or not open
\* would stream the resource; when download_file returns, get_filename returns
\* the cache file path, which is recorded on the instance and names a file.
\* With a path recorded, get_filename returns that path, which is the cache
\* file path, and neither runs download_file nor issues a request.
C11_FilenameLazyDownload ==
    olast.op = "get_filename" =>
        LET o == openers[olast.who]
        IN  /\ olast.use_cache
            /\ ~olast.materialized =>
                   /\ olast.dcalls >= 1
                   /\ olast.ok =>
                          /\ olast.result = tmpfile_path(o)
                          /\ o._filename = olast.result
                          /\ files[olast.result] # NoFile
                          /\ olast.existed => (olast.gets = 0 /\ olast.wrote = NoFile)
                          /\ ~olast.existed =>
                                 /\ olast.gets = olast.timeouts + 1
                                 /\ files[olast.result] = olast.wrote
                   /\ ~olast.ok => (olast.raised = "Timeout" /\ o._filename = "None")
            /\ olast.materialized =>
                   /\ olast.ok
                   /\ olast.dcalls = 0 /\ olast.gets = 0 /\ olast.wrote = NoFile
                   /\ olast.result = o._filename
                   /\ olast.result = tmpfile_path(o)

\* get_filename downloaded the full body of a resource that open would stream
C11_Witness ==
    /\ olast.op = "get_filename" /\ olast.ok /\ ~olast.materialized
    /\ LET o == openers[olast.who]
       IN  /\ StreamDecision(o.force_download, "None", data_length(o))
           /\ olast.result = tmpfile_path(o)
           /\ files[olast.result] = PlainBody
    /\ olast.gets = 1

\* C16 (as claimed): an open whose sniffing GETs all succeeded and whose
\* full-body GETs all timed out has issued at most attempts + 1 full-body GETs,
\* and raises the timeout.
C16_AtMostNPlusOneDownloadGets ==
    (/\ olast.op = "open"
     /\ olast.sfailed = 0 /\ olast.streams = 0
     /\ olast.gets >= 1 /\ olast.timeouts = olast.gets) =>
        /\ ~olast.ok /\ olast.raised = "Timeout"
        /\ olast.gets <= attempts + 1

(***************************************************************************)
(* Claims about resource_string (checked under SpecManager)                *)
(***************************************************************************)
\* what the resource holds: the body, or the payload of the gzip body
ResourceContent == IF server.gzip THEN GzipRead(GzipBody).data ELSE PlainBody

\* C14 (as claimed): a resource_string whose opener was opened (as a stream
\* over the cache file or as an HttpStreamWrapper), with the sniffed format
\* that of the resource and the cache file holding the resource's body,
\* raises nothing and returns the resource's full content.
C14_ContentOnEitherPath ==
    (/\ olast.op = "resource_string"
     /\ olast.result # "none"
     /\ (olast.fmt = "gzip") = server.gzip
     /\ files[olast.path] = ResponseBody(200)) =>
        /\ olast.ok /\ olast.raised = "none"
        /\ olast.data = ResourceContent

(***************************************************************************)
(* Claims about the retry decorator (checked under SpecRetry)              *)
(***************************************************************************)
Raised == r_calls.n["E1"] + r_calls.n["E2"] + r_calls.n["E3"]

GzipMagic == <<31, 139>>
TarMagic == <<117, 115, 116, 97, 114, 0>>

\* C12 (as claimed): detect_format(h) returns 'gzip' iff h[0:2] is the gzip
\* magic, 'tar' iff h[257:263] is the tar magic "ustar\0" and h is not gzip,
\* and None otherwise.
C12_DetectByMagic ==
    d_fmt # "unset" =>
        LET isGzip == Slice(d_header, 0, 2) = GzipMagic
            isTar == Slice(d_header, 257, 263) = TarMagic
        IN  /\ d_fmt = "gzip" <=> isGzip
            /\ d_fmt = "tar" <=> (isTar /\ ~isGzip)
            /\ d_fmt = "None" <=> (~isGzip /\ ~isTar)

(***************************************************************************)
(* Claims about FileOpener.hash (checked under SpecFile)                   *)
(***************************************************************************)
\* the two metadata states differ in nothing but the access time, if at all
SameButAccessTime(s, t) == [s EXCEPT !.st_atime = t.st_atime] = t

\* C13 (as claimed): compared with the key of the last evaluation, the key of
\* the file as it is now is the same when the metadata is unchanged, another
\* one when the modification time differs, and the same when only the access
\* time differs.
C13_KeyFollowsModificationTime ==
    f_hashed.called =>
        LET now == FileHash(f_path, f_stat).key
        IN  /\ f_stat = f_hashed.stat => now = f_hashed.key
            /\ f_stat.st_mtime # f_hashed.stat.st_mtime => now # f_hashed.key
            /\ SameButAccessTime(f_stat, f_hashed.stat) => now = f_hashed.key

\* C17 (as claimed): the loop appends every field of the stat tuple but the
\* access time (index 7), each once and in order, so the key of the file as it
\* is now differs from the last one whenever a field other than the access
\* time differs.
C17_OnlyAccessTimeSkipped ==
    f_hashed.called =>
        /\ f_hashed.taken = <<0, 1, 2, 3, 4, 5, 6, 8, 9>>
        /\ ~SameButAccessTime(f_stat, f_hashed.stat) =>
               FileHash(f_path, f_stat).key # f_hashed.key

(***************************************************************************)
(* Claims about concurrent downloads (checked under SpecRace)              *)
(***************************************************************************)
\* the bodies a full-body GET may return
Bodies == {ResponseBody(st) : st \in GetStatuses}

\* C19 (as claimed): a process that reused the cache file reads the complete
\* body of a download; and once both processes have written and closed the
\* file, it holds the complete body one of them downloaded.
C19_ReuseSeesCompleteFile ==
    /\ \A p \in Procs :
         (procs[p].reused /\ procs[p].pc = "read") => procs[p].seen \in Bodies
    /\ (\A p \in Procs : ~procs[p].reused /\ procs[p].pc \in {"returned", "read"}) =>
           cache \in {procs[p].data : p \in Procs}

=============================================================================
